---------------------------- MODULE Spec2Model ----------------------------
(***************************************************************************)
(* Model of the spatial-statistics core of refugia_analysis.py:            *)
(* haversine_distance, compute_spatial_weights, calculate_morans_i and     *)
(* permutation_test.                                                       *)
(*                                                                         *)
(* Numbers.  The program computes in floating point; the model computes    *)
(* in exact rational arithmetic.  A rational is a pair <<num, den>> with   *)
(* den > 0 in lowest terms, so equal rationals are equal values.           *)
(*                                                                         *)
(* Points.  The points of the model lie on the equator (latitude 0), or,   *)
(* where latitudes matter, on the prime meridian.  There the haversine     *)
(* formula reduces to R * (angular separation in radians).  Distances are kept in tenths of a kilometre, so that the     *)
(* 0.1 km floor of the inverse-distance weight is the integer 1, and a     *)
(* longitude is counted in arcs of 0.1 km (1 / 63710 radian): two points   *)
(* g arcs apart are g tenths of a kilometre apart.                         *)
(***************************************************************************)
EXTENDS Integers, Sequences, FiniteSets, TLC

VARIABLES
    pc,                \* position of the driver
    languages,         \* the point list handed to compute_spatial_weights
    k,                 \* neighbor count
    inverse_distance,  \* weighting mode
    weights,           \* the matrix returned by compute_spatial_weights
    values,            \* the value vector handed to calculate_morans_i
    morans,            \* the triple returned by calculate_morans_i
    error,             \* exception raised by the last call, or "none"
    rng,               \* state of the process-wide generator of module random
    seeded,            \* the last argument of random.seed, and whether the
                       \* generator has been drawn from since
    n_permutations,    \* permutation count handed to permutation_test
    perm,              \* locals of the running permutation_test
    p_value,           \* the p-value returned by permutation_test
    runs,              \* the completed calls of the function under study, oldest
                       \* first
    rebuilt,           \* the matrix returned by a second compute_spatial_weights
                       \* call on the same arguments
    datasets,          \* main's dict of parsed FeatureData: id -> point list
    call,              \* arguments and locals of the analyze_feature call
    result,            \* the dict returned by analyze_feature
    builds,            \* per dataset id, how often compute_spatial_weights ran
    step,              \* how many of main's analyze_feature calls are behind
    geo                \* arguments and return value of the called geographic helper

stats == <<languages, k, inverse_distance, weights, values, morans>>
perms == <<rng, seeded, n_permutations, perm, p_value, runs>>
analysis == <<datasets, call, result, builds, step, geo>>
vars == <<pc, stats, error, perms, rebuilt, analysis>>

---------------------------------------------------------------------------
(* Bounds of the model *)

MaxN == 4          \* longest point list
MaxLng == 3        \* longitudes are 0..MaxLng arcs
MaxK == 4          \* largest neighbor count tried

---------------------------------------------------------------------------
(* Exact rational arithmetic *)

(* TLC evaluates an operator's argument each time the operator's body      *)
(* uses it, and does so without caching below a function application.      *)
(* The operators below therefore bind each argument once, as the only      *)
(* element of a singleton set, before computing with it.                   *)

Abs(a) == IF a < 0 THEN 0 - a ELSE a

RECURSIVE Gcd(_, _)
Gcd(a, b) ==
    IF b = 0 THEN a ELSE CHOOSE g \in {Gcd(b, r) : r \in {a % b}} : TRUE

\* n / d in lowest terms with a positive denominator (d # 0)
Reduce(n, d) ==
    CHOOSE r \in {<<n \div g, d \div g>> : g \in {Gcd(Abs(n), d)}} : TRUE

Rat(n, d) ==
    CHOOSE r \in {IF b < 0 THEN Reduce(0 - a, 0 - b) ELSE Reduce(a, b) :
                    a \in {n}, b \in {d}} : TRUE

Zero == <<0, 1>>
One == <<1, 1>>
FromInt(a) == <<a, 1>>

AddReduced(p, q, g) ==
    Rat(p[1] * (q[2] \div g) + q[1] * (p[2] \div g), (p[2] \div g) * q[2])

RAdd(p, q) ==
    CHOOSE r \in {AddReduced(a, b, Gcd(a[2], b[2])) : a \in {p}, b \in {q}} : TRUE

RNeg(p) == CHOOSE r \in {<<0 - a[1], a[2]>> : a \in {p}} : TRUE

RSub(p, q) == RAdd(p, RNeg(q))

MulReduced(a, b) == <<a[1] * b[1], a[2] * b[2]>>

RMul(p, q) ==
    CHOOSE r \in {MulReduced(Rat(a[1], b[2]), Rat(b[1], a[2])) :
                    a \in {p}, b \in {q}} : TRUE

\* p / q, q # 0
RDiv(p, q) ==
    CHOOSE r \in {RMul(a, Rat(b[2], b[1])) : a \in {p}, b \in {q}} : TRUE

RSq(p) == CHOOSE r \in {<<a[1] * a[1], a[2] * a[2]>> : a \in {p}} : TRUE
RAbs(p) == CHOOSE r \in {<<Abs(a[1]), a[2]>> : a \in {p}} : TRUE
RLe(p, q) ==
    CHOOSE r \in {a[1] * b[2] <= b[1] * a[2] : a \in {p}, b \in {q}} : TRUE
RLt(p, q) ==
    CHOOSE r \in {a[1] * b[2] < b[1] * a[2] : a \in {p}, b \in {q}} : TRUE
RPos(p) == p[1] > 0
RIsZero(p) == p[1] = 0

\* the sum of a sequence of rationals, over the least common denominator
RECURSIVE LcmDen(_, _, _)
LcmDen(s, m, acc) ==
    IF m > Len(s) THEN acc
    ELSE CHOOSE r \in {LcmDen(s, m + 1, l) :
                         l \in {(acc \div Gcd(acc, s[m][2])) * s[m][2]}} : TRUE

RECURSIVE SumNum(_, _, _, _)
SumNum(s, den, m, acc) ==
    IF m > Len(s) THEN acc
    ELSE CHOOSE r \in {SumNum(s, den, m + 1, t) :
                         t \in {acc + s[m][1] * (den \div s[m][2])}} : TRUE

RSum(s) ==
    CHOOSE r \in {Rat(SumNum(t[1], t[2], 1, 0), t[2]) :
                    t \in {<<u, LcmDen(u, 1, 1)>> : u \in {s}}} : TRUE

---------------------------------------------------------------------------
(* Data structures *)

Language(lat, lng) == [latitude |-> lat, longitude |-> lng]

---------------------------------------------------------------------------
(* haversine_distance, on the equator, in tenths of a kilometre *)

EarthRadius == 6371

\* R * pi in tenths of a kilometre, pi taken as 355/113: half the equator
HalfCircumference10 == (EarthRadius * 10 * 355) \div 113

\* R * c with c = 2 * atan2(sqrt(a), sqrt(1 - a)): for two points of latitude
\* 0, a = sin(delta_lon / 2) ** 2 and R * c is the shorter arc between the
\* longitudes; for two points of one longitude, a = sin(delta_lat / 2) ** 2
\* and R * c is the shorter arc between the latitudes.  The point lists of
\* the model lie on the equator or on one meridian.
haversine_distance(lat1, lon1, lat2, lon2) ==
    LET apart == IF lon1 = lon2 THEN Abs(lat2 - lat1) ELSE Abs(lon2 - lon1)
        delta == apart % (2 * HalfCircumference10)
    IN  IF delta > HalfCircumference10 THEN 2 * HalfCircumference10 - delta
        ELSE delta

---------------------------------------------------------------------------
(* compute_spatial_weights *)

\* the (j, dist) pairs of the other points, in ascending j
DistancesWithSelf(langs, i) ==
    [j \in 1..Len(langs) |->
        [j |-> j,
         dist |-> haversine_distance(langs[i].latitude, langs[i].longitude,
                                     langs[j].latitude, langs[j].longitude)]]

\* the candidates collected in the order of the languages' codes
DistancesInCodeOrder(langs, i) ==
    [m \in 1..(Len(langs) - 1) |->
        LET r == IF langs[1].code > langs[Len(langs)].code THEN Len(langs) - m ELSE m
            j == IF r < i THEN r ELSE r + 1
        IN  [j |-> j,
             dist |-> haversine_distance(langs[i].latitude, langs[i].longitude,
                                         langs[j].latitude, langs[j].longitude)]]

Distances(langs, i) ==
    [m \in 1..(Len(langs) - 1) |->
        LET j == IF m < i THEN m ELSE m + 1
        IN  [j |-> j,
             dist |-> haversine_distance(langs[i].latitude, langs[i].longitude,
                                         langs[j].latitude, langs[j].longitude)]]

\* list.sort(key=dist): a stable sort, here by insertion from the left; an
\* element goes after every element whose key is not greater
RECURSIVE InsertBeforeEqual(_, _)
InsertBeforeEqual(e, s) ==
    IF s = << >> THEN <<e>>
    ELSE IF Head(s).dist < e.dist THEN <<Head(s)>> \o InsertBeforeEqual(e, Tail(s))
    ELSE <<e>> \o s

\* a sort that orders equal distances one way in the first call and the
\* other way in the next
RECURSIVE InsertUnstable(_, _)
InsertUnstable(e, s) ==
    IF s = << >> THEN <<e>>
    ELSE IF Head(s).dist < e.dist \/ (pc = "start" /\ Head(s).dist = e.dist)
         THEN <<Head(s)>> \o InsertUnstable(e, Tail(s))
    ELSE <<e>> \o s

RECURSIVE Insert(_, _)
Insert(e, s) ==
    IF s = << >> THEN <<e>>
    ELSE IF Head(s).dist <= e.dist THEN <<Head(s)>> \o Insert(e, Tail(s))
    ELSE <<e>> \o s

RECURSIVE SortFrom(_, _, _)
SortFrom(s, m, acc) ==
    IF m > Len(s) THEN acc ELSE SortFrom(s, m + 1, Insert(s[m], acc))

SortByDist(s) == SortFrom(s, 1, << >>)

\* the Python slice s[:kk]: a negative kk drops the last -kk elements
SliceOneShort(s, kk) ==
    LET stop == IF kk - 1 >= 0 THEN (IF kk - 1 < Len(s) THEN kk - 1 ELSE Len(s))
                ELSE (IF Len(s) + kk - 1 > 0 THEN Len(s) + kk - 1 ELSE 0)
    IN  SubSeq(s, 1, stop)

Slice(s, kk) ==
    LET stop == IF kk >= 0 THEN (IF kk < Len(s) THEN kk ELSE Len(s))
                ELSE (IF Len(s) + kk > 0 THEN Len(s) + kk ELSE 0)
    IN  SubSeq(s, 1, stop)

\* 1.0 / max(dist, 0.1), or 1.0 in binary mode (distances in tenths of a km)
RawWeight(dist, inv) ==
    IF inv THEN Rat(10, IF dist > 1 THEN dist ELSE 1) ELSE One

\* row i before standardization: the weight of each neighbor, 0.0 elsewhere
RowOf(n, neighbors, inv) ==
    [j \in 1..n |->
        IF \E m \in 1..Len(neighbors) : neighbors[m].j = j
        THEN RawWeight((CHOOSE e \in {neighbors[m] : m \in 1..Len(neighbors)} :
                            e.j = j).dist, inv)
        ELSE Zero]

RawRow(langs, i, kk, inv) ==
    CHOOSE row \in {RowOf(Len(langs), neighbors, inv) :
                      neighbors \in {Slice(SortByDist(Distances(langs, i)), kk)}} : TRUE

RowUntouched(row) == row

RowStandardize(row) ==
    CHOOSE r \in {IF RPos(row_sum) THEN [j \in 1..Len(row) |-> RDiv(row[j], row_sum)]
                  ELSE row : row_sum \in {RSum(row)}} : TRUE

compute_spatial_weights(langs, kk, inv) ==
    [i \in 1..Len(langs) |-> RowStandardize(RawRow(langs, i, kk, inv))]

---------------------------------------------------------------------------
(* calculate_morans_i *)

\* the sum of the entries m[i][j] of a matrix of terms
SumIJ(m) == RSum([i \in 1..Len(m) |-> RSum(m[i])])

\* z is (I - E_I) / sqrt(var_I): kept as its sign and its square
ZScore(sign, sq) == [sign |-> sign, sq |-> sq]
ZeroZ == ZScore(0, Zero)

Sign(p) == IF p[1] > 0 THEN 1 ELSE IF p[1] < 0 THEN 0 - 1 ELSE 0

\* the least z * z, to two decimals, from which 1 + erf(|z| / sqrt(2)) is 2.0
\* in double precision (|z| >= 8.244009839272804, z * z >= 67.96369823)
ErfSaturates(zsq) ==
    \E whole \in {zsq[1] \div zsq[2]} : \E rest \in {zsq[1] % zsq[2]} :
        whole > 67 \/ (whole = 67 /\ 100 * rest >= 97 * zsq[2])

\* 2 * (1 - 0.5 * (1 + erf(|z| / sqrt(2)))) in double precision: 1.0 at z = 0,
\* 0.0 once 1 + erf rounds to 2.0, and strictly between otherwise
PValue(zsq) ==
    IF RIsZero(zsq) THEN "1.0"
    ELSE IF ErfSaturates(zsq) THEN "0.0"
    ELSE "between 0 and 1"

Trivial == <<Zero, ZeroZ, "1.0">>

\* mean_val = sum(values) / n, the quotient rounded down to an integer
MeanFloor(vals) ==
    FromInt(RSum([i \in 1..Len(vals) |-> FromInt(vals[i])])[1] \div Len(vals))

Mean(vals) == RDiv(RSum([i \in 1..Len(vals) |-> FromInt(vals[i])]), FromInt(Len(vals)))

Deviations(vals) ==
    CHOOSE d \in {[i \in 1..Len(vals) |-> RSub(FromInt(vals[i]), mean_val)] :
                    mean_val \in {Mean(vals)}} : TRUE

SumSqDev(d) == RSum([i \in 1..Len(d) |-> RSq(d[i])])

\* the numerator loop: the cross products of the deviations d over i # j
Numerator(d, w) ==
    LET term(i, j) == IF i # j THEN RMul(w[i][j], RMul(d[i], d[j])) ELSE Zero
    IN  SumIJ([i \in 1..Len(d) |-> [j \in 1..Len(d) |-> term(i, j)]])

\* W: the sum of the weights over i # j
WeightSum(n, w) ==
    LET term(i, j) == IF i # j THEN w[i][j] ELSE Zero
    IN  SumIJ([i \in 1..n |-> [j \in 1..n |-> term(i, j)]])

\* I = (n / W) * (numerator / sum_sq_dev)
MoranStatisticUnscaled(n, W, numerator, sum_sq_dev) ==
    RMul(RDiv(One, W), RDiv(numerator, sum_sq_dev))

MoranStatistic(n, W, numerator, sum_sq_dev) ==
    RMul(RDiv(FromInt(n), W), RDiv(numerator, sum_sq_dev))

\* E_I = -1.0 / (n - 1)
ExpectedIOverN(n) == Rat(0 - 1, n)

ExpectedI(n) == Rat(0 - 1, n - 1)

S1(n, w) ==
    LET term(i, j) == RSq(RAdd(w[i][j], w[j][i]))
    IN  RDiv(SumIJ([i \in 1..n |-> [j \in 1..n |-> term(i, j)]]), FromInt(2))

S2(n, w) ==
    RSum([i \in 1..n |->
            LET row_sum == RSum(w[i])
                col_sum == RSum([j \in 1..n |-> w[j][i]])
            IN  RSq(RAdd(row_sum, col_sum))])

\* b2 = m4 / m2 ** 2
Kurtosis(d, sum_sq_dev) ==
    LET n  == FromInt(Len(d))
        m2 == RDiv(sum_sq_dev, n)
        m4 == RDiv(RSum([i \in 1..Len(d) |-> RSq(RSq(d[i]))]), n)
    IN  IF RPos(m2) THEN RDiv(m4, RSq(m2)) ELSE FromInt(3)

VarA(n, s1, s2, W) ==
    RMul(FromInt(n),
         RAdd(RSub(RMul(FromInt(n * n - 3 * n + 3), s1), RMul(FromInt(n), s2)),
              RMul(FromInt(3), RSq(W))))

VarB(n, b2, s1, s2, W) ==
    RMul(b2,
         RAdd(RSub(RMul(FromInt(n * n - n), s1), RMul(FromInt(2 * n), s2)),
              RMul(FromInt(6), RSq(W))))

VarC(n, W) == RMul(FromInt((n - 1) * (n - 2) * (n - 3)), RSq(W))

VarI(A, B, C, E_I) == RSub(RDiv(RSub(A, B), C), RSq(E_I))

\* z and p once var_I > 0
ZAndP(I, E_I, var_I) ==
    CHOOSE r \in {<<I, ZScore(Sign(diff), zsq), PValue(zsq)>> :
                    diff \in {RSub(I, E_I)},
                    zsq \in {RDiv(RSq(RSub(I, E_I)), var_I)}} : TRUE

\* the tail of calculate_morans_i, from the test of C on
SignificanceTrivialFallback(I, E_I, A, B, C) ==
    IF RIsZero(C) THEN Trivial
    ELSE CHOOSE r \in {IF RLe(var_I, Zero) THEN Trivial
                       ELSE ZAndP(I, E_I, var_I) :
                          var_I \in {VarI(A, B, C, E_I)}} : TRUE

Significance(I, E_I, A, B, C) ==
    IF RIsZero(C) THEN <<I, ZeroZ, "1.0">>
    ELSE CHOOSE r \in {IF RLe(var_I, Zero) THEN <<I, ZeroZ, "1.0">>
                       ELSE ZAndP(I, E_I, var_I) :
                          var_I \in {VarI(A, B, C, E_I)}} : TRUE

\* calculate_morans_i from the computation of I on (W # 0)
FullPath(n, d, sum_sq_dev, w, W) ==
    CHOOSE r \in {Significance(I, ExpectedI(n), VarA(n, s1, s2, W),
                               VarB(n, b2, s1, s2, W), VarC(n, W)) :
                    I \in {MoranStatistic(n, W, Numerator(d, w), sum_sq_dev)},
                    s1 \in {S1(n, w)},
                    s2 \in {S2(n, w)},
                    b2 \in {Kurtosis(d, sum_sq_dev)}} : TRUE

\* calculate_morans_i from the test of sum_sq_dev on (n >= 3)
FromDeviations(n, d, w) ==
    CHOOSE r \in {IF RIsZero(sum_sq_dev) THEN Trivial
                  ELSE IF RIsZero(W) THEN Trivial
                  ELSE FullPath(n, d, sum_sq_dev, w, W) :
                    sum_sq_dev \in {SumSqDev(d)},
                    W \in {WeightSum(n, w)}} : TRUE

calculate_morans_i_from_two(vals, w) ==
    IF Len(vals) < 2 THEN Trivial
    ELSE CHOOSE r \in {FromDeviations(Len(vals), d, w) : d \in {Deviations(vals)}} : TRUE

calculate_morans_i_from_four(vals, w) ==
    IF Len(vals) < 4 THEN Trivial
    ELSE CHOOSE r \in {FromDeviations(Len(vals), d, w) : d \in {Deviations(vals)}} : TRUE

calculate_morans_i(vals, w) ==
    IF Len(vals) < 3 THEN Trivial
    ELSE CHOOSE r \in {FromDeviations(Len(vals), d, w) : d \in {Deviations(vals)}} : TRUE

---------------------------------------------------------------------------
(* permutation_test *)

\* The generator of module random, as a 16-state linear congruential
\* generator: one step per draw.
RngNext(s) == (5 * s + 3) % 16

\* random.seed(a): the state is a function of a alone
SeedKeepsState(a, old) == old

SeedState(a, old) == a % 16

\* the draw j of randbelow(n) from generator state s: 0 <= j < n
RandBelow(n, s) == (s * n) \div 16

\* x[i], x[j] = x[j], x[i]
SwapOverwrite(x, i, j) == [x EXCEPT ![i] = x[j]]

Swap(x, i, j) == [x EXCEPT ![i] = x[j], ![j] = x[i]]

\* random.shuffle(x): for i from the last index down to the second, swap
\* x[i] with x[j], j drawn from the first i indices
RECURSIVE ShuffleFrom(_, _, _)
ShuffleFrom(x, i, s) ==
    IF i < 2 THEN [x |-> x, rng |-> s]
    ELSE CHOOSE r \in {ShuffleFrom(Swap(x, i, 1 + RandBelow(i, t)), i - 1, t) :
                         t \in {RngNext(s)}} : TRUE

Shuffle(x, s) == ShuffleFrom(x, Len(x), s)

\* abs(perm_I) >= abs(observed_I), compared exactly: two statistics that are
\* equal here can differ in the last bit in doubles when their sums were
\* accumulated in different orders
StrictlyMoreExtreme(perm_I, observed_I) == RLt(RAbs(observed_I), RAbs(perm_I))

AsExtreme(perm_I, observed_I) == RLe(RAbs(observed_I), RAbs(perm_I))

\* shuffled_values = values.copy(); random.shuffle(shuffled_values): what the
\* caller's list holds after the shuffle of the copy
ShuffledInPlace(vals, shuffled) == shuffled

CallerValues(vals, shuffled) == vals

\* for _ in range(n_permutations): the loop is over after n_permutations
\* passes, at once when n_permutations <= 0
LoopDoneOneEarly(trial, m) == trial + 1 >= m

LoopDone(trial, m) == trial >= m

\* (more_extreme + 1) / (n_permutations + 1), n_permutations # -1
EmpiricalP(more_extreme, m) == Rat(more_extreme + 1, m + 1)

\* the generator as module random leaves it at import: seeded from the
\* operating system, by no call of random.seed
Unseeded == [seed |-> 0, fresh |-> FALSE]

NoLocals == [observed_I |-> Zero, more_extreme |-> 0, trial |-> 0, perm_Is |-> << >>,
             shuffled_values |-> << >>, seed |-> Unseeded]

NoPermutationTest ==
    /\ rng = 0
    /\ seeded = Unseeded
    /\ n_permutations = 0
    /\ perm = NoLocals
    /\ p_value = Zero
    /\ runs = << >>

NoCall == [feature_id |-> "none", target_values |-> {}, run_permutation |-> FALSE,
           target_count |-> 0]

NoResult == [feature_id |-> "none"]

NoGeo == [args |-> << >>, returned |-> "none", is_refugia |-> "none"]

NoAnalysis ==
    /\ rebuilt = << >>
    /\ datasets = [id \in {} |-> << >>]
    /\ call = NoCall
    /\ result = NoResult
    /\ builds = [id \in {} |-> 0]
    /\ step = 0
    /\ geo = NoGeo

---------------------------------------------------------------------------
(* Inputs *)

RECURSIVE SeqsUpTo(_, _)
SeqsUpTo(S, n) ==
    IF n = 0 THEN {<< >>}
    ELSE LET shorter == SeqsUpTo(S, n - 1)
         IN  shorter \cup {Append(s, x) : s \in {t \in shorter : Len(t) = n - 1}, x \in S}

Points == {Language(0, g) : g \in 0..MaxLng}
KValues == (0 - 2)..MaxK

---------------------------------------------------------------------------
(* The weights builder alone *)

InitW ==
    /\ pc = "start"
    /\ languages \in SeqsUpTo(Points, MaxN)
    /\ k \in KValues
    /\ inverse_distance \in BOOLEAN
    /\ weights = << >>
    /\ values = << >>
    /\ morans = Trivial
    /\ error = "none"
    /\ NoPermutationTest
    /\ NoAnalysis

ComputeWeights ==
    /\ pc = "start"
    /\ weights' = compute_spatial_weights(languages, k, inverse_distance)
    /\ pc' = "weighted"
    /\ UNCHANGED <<languages, k, inverse_distance, values, morans, error, perms, rebuilt, analysis>>

\* compute_spatial_weights called once more on the same arguments
ComputeWeightsAgain ==
    /\ pc = "weighted"
    /\ rebuilt' = compute_spatial_weights(languages, k, inverse_distance)
    /\ pc' = "rebuilt"
    /\ UNCHANGED <<stats, error, perms, analysis>>

NextW == ComputeWeights \/ ComputeWeightsAgain

SpecW == InitW /\ [][NextW]_vars

---------------------------------------------------------------------------
(* The weights builder followed by the autocorrelation calculator *)

MoranMaxN == 4     \* longest point list handed on to calculate_morans_i
MoranMaxLng == 1   \* its longitudes are 0, 2, .., 2 * MoranMaxLng arcs
MoranMaxK == 2     \* its neighbor counts are 0..MoranMaxK

Labels == {0, 1}

MoranPoints == {Language(0, 2 * g) : g \in 0..MoranMaxLng}

InitM ==
    /\ pc = "start"
    /\ languages \in SeqsUpTo(MoranPoints, MoranMaxN)
    /\ k \in 0..MoranMaxK
    /\ inverse_distance = TRUE
    /\ weights = << >>
    /\ values = << >>
    /\ morans = Trivial
    /\ error = "none"
    /\ NoPermutationTest
    /\ NoAnalysis

CalculateMoransI ==
    /\ pc = "weighted"
    /\ \E vals \in [1..Len(languages) -> Labels] :
          /\ values' = vals
          /\ morans' = calculate_morans_i(vals, weights)
    /\ pc' = "analysed"
    /\ UNCHANGED <<languages, k, inverse_distance, weights, error, perms, rebuilt, analysis>>

NextM == ComputeWeights \/ CalculateMoransI

SpecM == InitM /\ [][NextM]_vars

---------------------------------------------------------------------------
(* The permutation tester, called twice on one matrix *)

PermMaxN == 4      \* longest point list handed on to permutation_test
PermMaxM == 2      \* largest permutation count tried
MaxSeed == 1       \* the seeds are 0..MaxSeed

DefaultK == 5

Seeds == 0..MaxSeed

\* one point list per size: n points that alternate between two sites 0.2 km
\* apart, so that a point has coincident and distant neighbors
PermLayout(n) == [i \in 1..n |-> Language(0, 2 * (i % 2))]

InitP ==
    /\ pc = "start"
    /\ languages \in {PermLayout(n) : n \in 0..PermMaxN}
    /\ k = DefaultK
    /\ inverse_distance = TRUE
    /\ weights = << >>
    /\ values \in [1..Len(languages) -> Labels]
    /\ morans = Trivial
    /\ error = "none"
    /\ rng \in {SeedState(a, 0) : a \in Seeds}
    /\ seeded = Unseeded
    /\ n_permutations \in (0 - 2)..PermMaxM
    /\ perm = NoLocals
    /\ p_value = Zero
    /\ runs = << >>
    /\ NoAnalysis

Idle == pc \in {"weighted", "tested"}

\* random.seed(a)
RandomSeed ==
    /\ Idle
    /\ \E a \in Seeds :
          /\ rng' = SeedState(a, rng)
          /\ seeded' = [seed |-> a, fresh |-> TRUE]
    /\ UNCHANGED <<pc, stats, error, n_permutations, perm, p_value, runs, rebuilt, analysis>>

\* permutation_test up to the loop
PermStart ==
    /\ Idle
    /\ Len(runs) < 2
    /\ \E observed \in {calculate_morans_i(values, weights)} :
          perm' = [observed_I |-> observed[1], more_extreme |-> 0, trial |-> 0,
                   perm_Is |-> << >>, shuffled_values |-> << >>, seed |-> seeded]
    /\ pc' = "permuting"
    /\ UNCHANGED <<stats, error, rng, seeded, n_permutations, p_value, runs, rebuilt, analysis>>

\* one pass of the loop
PermTrial ==
    /\ pc = "permuting"
    /\ ~LoopDone(perm.trial, n_permutations)
    /\ \E sh \in {Shuffle(values, rng)} :
       \E permuted \in {calculate_morans_i(sh.x, weights)} :
       \E perm_I \in {permuted[1]} :
          /\ rng' = sh.rng
          /\ seeded' = [seeded EXCEPT !.fresh = seeded.fresh /\ Len(values) < 2]
          /\ perm' = [perm EXCEPT
                        !.more_extreme = IF AsExtreme(perm_I, perm.observed_I)
                                         THEN perm.more_extreme + 1
                                         ELSE perm.more_extreme,
                        !.trial = perm.trial + 1,
                        !.perm_Is = Append(perm.perm_Is, perm_I),
                        !.shuffled_values = sh.x]
          /\ values' = CallerValues(values, sh.x)
    /\ UNCHANGED <<pc, languages, k, inverse_distance, weights, morans, error,
                   n_permutations, p_value, runs, rebuilt, analysis>>

\* the loop is over: the p-value and the return
PermFinish ==
    /\ pc = "permuting"
    /\ LoopDone(perm.trial, n_permutations)
    /\ IF n_permutations + 1 = 0
       THEN /\ error' = "ZeroDivisionError"
            /\ UNCHANGED p_value
       ELSE /\ error' = "none"
            /\ p_value' = EmpiricalP(perm.more_extreme, n_permutations)
    /\ runs' = Append(runs, [seed |-> perm.seed, observed_I |-> perm.observed_I,
                             p_value |-> p_value', error |-> error'])
    /\ pc' = "tested"
    /\ UNCHANGED <<stats, rng, seeded, n_permutations, perm, rebuilt, analysis>>

NextP == ComputeWeights \/ RandomSeed \/ PermStart \/ PermTrial \/ PermFinish

SpecP == InitP /\ [][NextP]_vars

\* the calls on one labelling per point list (the two sites carry the two
\* labels), where the interpreter runs the loop of a call to its end
InitPFair == InitP /\ values = [i \in 1..Len(languages) |-> i % 2]

SpecPFair == InitPFair /\ [][NextP]_vars /\ WF_vars(PermTrial) /\ WF_vars(PermFinish)

---------------------------------------------------------------------------
(* The autocorrelation calculator on matrices of the caller's own making *)

CalcMaxN == 4      \* longest value vector of these calls

\* the cells of an n x n matrix, the diagonal included, and no cell
Cells(n) == ((1..n) \X (1..n)) \cup {<<0, 0>>}

\* the n x n matrix of zeros with 1.0 added in cell a and 2.0 added in cell b
SparseMatrix(n, a, b) ==
    [i \in 1..n |-> [j \in 1..n |->
        FromInt((IF <<i, j>> = a THEN 1 ELSE 0) + (IF <<i, j>> = b THEN 2 ELSE 0))]]

\* the matrices with at most two entries that are not 0.0, the 2.0 off the
\* diagonal
WeightMatrices(n) ==
    {SparseMatrix(n, a, b) : a \in Cells(n), b \in {c \in Cells(n) : c[1] # c[2] \/ c[1] = 0}}

\* 1 - x, entry by entry
Complement(vals) == [i \in 1..Len(vals) |-> 1 - vals[i]]

\* the points are not read by calculate_morans_i: n points on one site
InitC ==
    /\ pc = "weighted"
    /\ \E n \in 0..CalcMaxN :
          /\ languages = [i \in 1..n |-> Language(0, 0)]
          /\ weights \in WeightMatrices(n)
    /\ k = DefaultK
    /\ inverse_distance = TRUE
    /\ values = << >>
    /\ morans = Trivial
    /\ error = "none"
    /\ NoPermutationTest
    /\ NoAnalysis

\* calculate_morans_i called once more, on the complemented vector
CalculateMoransIOfComplement ==
    /\ pc = "analysed"
    /\ \E vals \in {Complement(values)} :
          /\ values' = vals
          /\ morans' = calculate_morans_i(vals, weights)
    /\ runs' = Append(runs, [values |-> values, morans |-> morans])
    /\ pc' = "complemented"
    /\ UNCHANGED <<languages, k, inverse_distance, weights, error, rng, seeded,
                   n_permutations, perm, p_value, rebuilt, analysis>>

NextC == CalculateMoransI \/ CalculateMoransIOfComplement

SpecC == InitC /\ [][NextC]_vars

---------------------------------------------------------------------------
(* The permutation tester on matrices with and without weight *)

TrialMaxN == 4     \* longest point list of these calls
TrialMaxM == 2     \* largest permutation count of these calls

\* as InitP, with the neighbor counts 0 (a matrix of zeros) and 5, and the
\* permutation counts from 0 on
InitT ==
    /\ pc = "start"
    /\ languages \in {PermLayout(n) : n \in 0..TrialMaxN}
    /\ k \in {0, DefaultK}
    /\ inverse_distance = TRUE
    /\ weights = << >>
    /\ values \in [1..Len(languages) -> Labels]
    /\ morans = Trivial
    /\ error = "none"
    /\ rng \in {SeedState(a, 0) : a \in Seeds}
    /\ seeded = Unseeded
    /\ n_permutations \in 0..TrialMaxM
    /\ perm = NoLocals
    /\ p_value = Zero
    /\ runs = << >>
    /\ NoAnalysis

NextT == ComputeWeights \/ PermStart \/ PermTrial \/ PermFinish

SpecT == InitT /\ [][NextT]_vars

---------------------------------------------------------------------------
(* analyze_feature, called on its own *)

AnalysisMaxN == 5  \* longest point list of a dataset
AnalysisMaxM == 1  \* largest permutation count handed to analyze_feature

MinLanguages == 5
MinTargets == 3

\* the Language tuple with the fields the statistics never read: code, name,
\* value (the stored category) and description
LanguageRecord(code, lat, lng, value) ==
    [code |-> code, name |-> code, latitude |-> lat, longitude |-> lng,
     value |-> value, description |-> value]

\* [1 if l.value in target_values else 0 for l in feature_data.languages]
BinaryValues(langs, targets) ==
    [i \in 1..Len(langs) |-> IF langs[i].value \in targets THEN 1 ELSE 0]

\* [l for l in feature_data.languages if l.value in target_values]
RECURSIVE TargetLangs(_, _)
TargetLangs(langs, targets) ==
    IF langs = << >> THEN << >>
    ELSE IF Head(langs).value \in targets
         THEN <<Head(langs)>> \o TargetLangs(Tail(langs), targets)
         ELSE TargetLangs(Tail(langs), targets)

\* run_permutation and len(target_langs) >= 3
RunsPermutationAlways(run_permutation, target_count) == run_permutation

RunsPermutation(run_permutation, target_count) ==
    run_permutation /\ target_count >= MinTargets

\* the dict analyze_feature returns (its enrichment entry is not part of the
\* model); 100 * len(target_langs) / len(languages) needs a language
ReturnValue(id, langs, target_langs, m, perm_p) ==
    [feature_id |-> id,
     total_languages |-> Len(langs),
     target_count |-> Len(target_langs),
     target_percentage |-> Rat(100 * Len(target_langs), Len(langs)),
     morans_i |-> m[1],
     z_score |-> m[2],
     p_value |-> m[3],
     permutation_p |-> perm_p,
     target_languages |-> target_langs]

\* analyze_feature up to its return, or up to the loop of the permutation
\* test it calls
AnalyzeFeature(id, targets, kn, runperm, m) ==
    /\ pc = "ready"
    /\ id \in DOMAIN datasets
    /\ \E langs \in {datasets[id]} :
       \E binary_values \in {BinaryValues(langs, targets)} :
       \E target_langs \in {TargetLangs(langs, targets)} :
          /\ languages' = langs
          /\ values' = binary_values
          /\ k' = kn
          /\ inverse_distance' = TRUE
          /\ n_permutations' = m
          /\ call' = [feature_id |-> id, target_values |-> targets,
                      run_permutation |-> runperm, target_count |-> Len(target_langs)]
          /\ IF Len(langs) >= MinLanguages
             THEN \E w \in {compute_spatial_weights(langs, kn, TRUE)} :
                  \E mi \in {calculate_morans_i(binary_values, w)} :
                     /\ weights' = w
                     /\ morans' = mi
                     /\ builds' = [builds EXCEPT ![id] = @ + 1]
                     /\ IF RunsPermutation(runperm, Len(target_langs))
                        THEN /\ perm' = [observed_I |-> mi[1], more_extreme |-> 0,
                                         trial |-> 0, perm_Is |-> << >>,
                                         shuffled_values |-> << >>, seed |-> seeded]
                             /\ pc' = "permuting"
                             /\ UNCHANGED <<result, error>>
                        ELSE /\ result' = ReturnValue(id, langs, target_langs, mi, "None")
                             /\ pc' = "reported"
                             /\ error' = "none"
                             /\ UNCHANGED perm
             ELSE /\ weights' = << >>
                  /\ morans' = Trivial
                  /\ UNCHANGED <<builds, perm>>
                  /\ IF Len(langs) = 0
                     THEN /\ error' = "ZeroDivisionError"
                          /\ pc' = "raised"
                          /\ UNCHANGED result
                     ELSE /\ result' = ReturnValue(id, langs, target_langs, Trivial, "None")
                          /\ pc' = "reported"
                          /\ error' = "none"
    /\ UNCHANGED <<rng, seeded, p_value, runs, rebuilt, datasets, step, geo>>

\* analyze_feature from the return of permutation_test on
AnalyzeReturn ==
    /\ pc = "tested"
    /\ error = "none"
    /\ \E target_langs \in {TargetLangs(languages, call.target_values)} :
          result' = ReturnValue(call.feature_id, languages, target_langs, morans, p_value)
    /\ pc' = "reported"
    /\ UNCHANGED <<stats, error, perms, rebuilt, datasets, call, builds, step, geo>>

Categories == {1, 2}

\* a point list of n languages on the two sites of PermLayout, with the
\* category values vals; the codes run up or down the list
Dataset(n, vals, up) ==
    [i \in 1..n |-> LanguageRecord(IF up THEN i ELSE n - i, 0, 2 * (i % 2), vals[i])]

InitA ==
    /\ pc = "ready"
    /\ \E n \in 0..AnalysisMaxN : \E vals \in [1..n -> Categories] : \E up \in BOOLEAN :
          datasets = [id \in {"1A"} |-> Dataset(n, vals, up)]
    /\ languages = << >>
    /\ k = DefaultK
    /\ inverse_distance = TRUE
    /\ weights = << >>
    /\ values = << >>
    /\ morans = Trivial
    /\ error = "none"
    /\ NoPermutationTest
    /\ rebuilt = << >>
    /\ call = NoCall
    /\ result = NoResult
    /\ builds = [id \in {"1A"} |-> 0]
    /\ step = 0
    /\ geo = NoGeo

CallAnalyzeFeature ==
    \E kn \in {2, DefaultK} : \E runperm \in BOOLEAN : \E m \in 0..AnalysisMaxM :
        AnalyzeFeature("1A", {1}, kn, runperm, m)

NextA == CallAnalyzeFeature \/ PermTrial \/ PermFinish \/ AnalyzeReturn

SpecA == InitA /\ [][NextA]_vars

---------------------------------------------------------------------------
(* main, from the parsed datasets on *)

DefaultPermutations == 999

FeatureIds == {"1A", "2A", "18A", "131A"}

\* the analyze_feature calls of main, in program order
MainCalls ==
    << [id |-> "1A", target_values |-> {1}],
       [id |-> "2A", target_values |-> {1}],
       [id |-> "18A", target_values |-> {3}],
       [id |-> "18A", target_values |-> {4, 5, 6}],
       [id |-> "18A", target_values |-> {2, 5}],
       [id |-> "131A", target_values |-> {6}] >>

\* a dataset of n languages whose categories run through 1..6
MainData(n) == Dataset(n, [i \in 1..n |-> ((i - 1) % 6) + 1], TRUE)

\* no language, one language too few for the statistics, and enough
SampleSizes == {0, AnalysisMaxN - 1, AnalysisMaxN}

\* main returns early when no dataset was loaded
InitR ==
    /\ pc = "ready"
    /\ \E loaded \in (SUBSET FeatureIds) \ {{}} : \E size \in [loaded -> SampleSizes] :
          /\ datasets = [id \in loaded |-> MainData(size[id])]
          /\ builds = [id \in loaded |-> 0]
    /\ languages = << >>
    /\ k = DefaultK
    /\ inverse_distance = TRUE
    /\ weights = << >>
    /\ values = << >>
    /\ morans = Trivial
    /\ error = "none"
    /\ NoPermutationTest
    /\ rebuilt = << >>
    /\ call = NoCall
    /\ result = NoResult
    /\ step = 0
    /\ geo = NoGeo

\* if '<id>' in datasets: result = analyze_feature(datasets['<id>'], ...)
MainAnalyze ==
    /\ step < Len(MainCalls)
    /\ AnalyzeFeature(MainCalls[step + 1].id, MainCalls[step + 1].target_values,
                      DefaultK, FALSE, DefaultPermutations)

\* the dataset of the next call was not loaded
MainSkip ==
    /\ pc = "ready"
    /\ step < Len(MainCalls)
    /\ MainCalls[step + 1].id \notin DOMAIN datasets
    /\ step' = step + 1
    /\ UNCHANGED <<pc, stats, error, perms, rebuilt, datasets, call, result, builds, geo>>

\* all_results.append(result); print_results(result, baseline)
MainCollect ==
    /\ pc = "reported"
    /\ pc' = "ready"
    /\ step' = step + 1
    /\ UNCHANGED <<stats, error, perms, rebuilt, datasets, call, result, builds, geo>>

NextR == MainAnalyze \/ MainSkip \/ MainCollect

SpecR == InitR /\ [][NextR]_vars

---------------------------------------------------------------------------
(* parse_wals_xml, then the weights builder on what it returned *)

XmlMaxN == 3       \* most <l> elements of the parsed feature

\* an attribute text lat="..." or lng="...": float() returns number, or
\* raises ValueError
Attribute(parses, number) == [parses |-> parses, number |-> number]

\* 360 degrees and one arc of 0.2 km more
BeyondRange == 2 * HalfCircumference10 + 2

Coordinates == {Attribute(TRUE, 0), Attribute(TRUE, 2), Attribute(TRUE, BeyondRange),
                Attribute(FALSE, 0)}

\* <l> elements on the equator, and <l> elements on the prime meridian
XmlInputs ==
    SeqsUpTo({[lat |-> Attribute(TRUE, 0), lng |-> a] : a \in Coordinates}, XmlMaxN)
        \cup SeqsUpTo({[lat |-> a, lng |-> Attribute(TRUE, 0)] : a \in Coordinates}, XmlMaxN)

\* the loop over the <l> elements: an element whose lat or lng is no number
\* is skipped, every other one becomes a Language
RECURSIVE ParseLanguages(_, _)
ParseLanguages(elems, m) ==
    IF m = 0 THEN << >>
    ELSE IF elems[m].lat.parses /\ elems[m].lng.parses
         THEN Append(ParseLanguages(elems, m - 1),
                     LanguageRecord(m, elems[m].lat.number, elems[m].lng.number, 1))
         ELSE ParseLanguages(elems, m - 1)

InitX ==
    /\ pc = "unparsed"
    /\ languages = << >>
    /\ k \in 1..2
    /\ inverse_distance \in BOOLEAN
    /\ weights = << >>
    /\ values = << >>
    /\ morans = Trivial
    /\ error = "none"
    /\ NoPermutationTest
    /\ NoAnalysis

ParseWalsXml ==
    /\ pc = "unparsed"
    /\ \E elems \in XmlInputs : languages' = ParseLanguages(elems, Len(elems))
    /\ pc' = "start"
    /\ UNCHANGED <<k, inverse_distance, weights, values, morans, error, perms, rebuilt,
                   analysis>>

NextX == ParseWalsXml \/ ComputeWeights

SpecX == InitX /\ [][NextX]_vars

---------------------------------------------------------------------------
(* The two worked scenarios: five points one degree apart on the equator *)

ScenarioMaxK == 3  \* the neighbor counts of the scenarios are 1..ScenarioMaxK

\* one degree of longitude on the equator, in arcs of 0.1 km
DegreeArcs == HalfCircumference10 \div 180

\* the points at longitudes 0, 1, 2, 3, 4 degrees, latitude 0
ScenarioPoints == [i \in 1..5 |-> Language(0, (i - 1) * DegreeArcs)]

InitS ==
    /\ pc = "start"
    /\ languages = ScenarioPoints
    /\ k \in 1..ScenarioMaxK
    /\ inverse_distance \in BOOLEAN
    /\ weights = << >>
    /\ values = << >>
    /\ morans = Trivial
    /\ error = "none"
    /\ NoPermutationTest
    /\ NoAnalysis

SpecS == InitS /\ [][NextM]_vars

---------------------------------------------------------------------------
(* The calculator on two clusters of coincident points *)

ClusterMaxHalf == 8    \* most points of one cluster

\* h points on one site and h points on a site 0.2 km away
ClusterLayout(h) == [i \in 1..(2 * h) |-> Language(0, IF i <= h THEN 0 ELSE 2)]

\* the first s points carry the trait
SplitLabels(n, s) == [i \in 1..n |-> IF i <= s THEN 1 ELSE 0]

InitZ ==
    /\ pc = "start"
    /\ languages \in {ClusterLayout(h) : h \in 0..ClusterMaxHalf}
    /\ k = DefaultK
    /\ inverse_distance \in BOOLEAN
    /\ weights = << >>
    /\ values = << >>
    /\ morans = Trivial
    /\ error = "none"
    /\ NoPermutationTest
    /\ NoAnalysis

\* calculate_morans_i on the labellings that split the list in two
CalculateMoransIOfSplit ==
    /\ pc = "weighted"
    /\ \E s \in 0..Len(languages) :
       \E vals \in {SplitLabels(Len(languages), s)} :
          /\ values' = vals
          /\ morans' = calculate_morans_i(vals, weights)
    /\ pc' = "analysed"
    /\ UNCHANGED <<languages, k, inverse_distance, weights, error, perms, rebuilt, analysis>>

NextZ == ComputeWeights \/ CalculateMoransIOfSplit

SpecZ == InitZ /\ [][NextZ]_vars

---------------------------------------------------------------------------
(* haversine_distance called on points given in whole degrees *)

HaversineMaxLat == 12  \* the latitudes of the calls are -HaversineMaxLat..HaversineMaxLat

\* the second point is the antipode of the first
Antipodal(lat1, lon1, lat2, lon2) == lat2 = 0 - lat1 /\ Abs(lon2 - lon1) = 180

\* For the antipodes (lat, lon) and (-lat, lon +- 180), lat and lon in whole
\* degrees, a = sin(delta_lat / 2) ** 2 + cos(lat1_rad) * cos(lat2_rad) *
\* sin(delta_lon / 2) ** 2 is 1 in real arithmetic.  In IEEE double arithmetic
\* it is 1 + RoundOff * 2^-53, with the round-off below, which depends on
\* |lat| alone (the values the expression of the source takes, for |lat| = 0..90).
RoundOff(lat) ==
    IF Abs(lat) \in {8, 12, 82} THEN 2
    ELSE IF Abs(lat) \in {3, 4, 6, 7, 10, 18, 24, 29, 35, 40, 43, 47, 63, 66, 70, 71, 72,
                          80, 84, 86, 87} THEN 0 - 1
    ELSE IF Abs(lat) = 46 THEN 0 - 2
    ELSE 0

\* c = 2 * atan2(sqrt(a), sqrt(1 - a)); return R * c.  math.sqrt raises
\* ValueError on a negative argument.  For a <= 1 within 2^-52 of 1 the result
\* is pi * R less at most 0.0002 km; for two points of the equator it is the
\* arc between them.
HaversineOfDegrees(lat1, lon1, lat2, lon2) ==
    IF Antipodal(lat1, lon1, lat2, lon2)
    THEN IF 0 - RoundOff(lat1) < 0
         THEN [raises |-> "ValueError", distance |-> 0]
         ELSE [raises |-> "none", distance |-> HalfCircumference10]
    ELSE [raises |-> "none",
          distance |-> haversine_distance(lat1 * DegreeArcs, lon1 * DegreeArcs,
                                          lat2 * DegreeArcs, lon2 * DegreeArcs)]

\* pairs of antipodes, and pairs of points of the equator
HaversineInputs ==
    {<<lat, lon, 0 - lat, lon + 180>> :
        lat \in (0 - HaversineMaxLat)..HaversineMaxLat, lon \in {0 - 180, 0 - 90, 0}}
    \cup {<<0, 0, 0, lon>> : lon \in {0, 1, 90, 179}}

InitH ==
    /\ pc = "located"
    /\ geo \in {[NoGeo EXCEPT !.args = a] : a \in HaversineInputs}
    /\ languages = << >>
    /\ k = DefaultK
    /\ inverse_distance = TRUE
    /\ weights = << >>
    /\ values = << >>
    /\ morans = Trivial
    /\ error = "none"
    /\ NoPermutationTest
    /\ rebuilt = << >>
    /\ datasets = [id \in {} |-> << >>]
    /\ call = NoCall
    /\ result = NoResult
    /\ builds = [id \in {} |-> 0]
    /\ step = 0

HaversineDistance ==
    /\ pc = "located"
    /\ \E r \in {HaversineOfDegrees(geo.args[1], geo.args[2], geo.args[3], geo.args[4])} :
          /\ error' = r.raises
          /\ geo' = IF r.raises = "none" THEN [geo EXCEPT !.returned = r.distance] ELSE geo
    /\ pc' = "measured"
    /\ UNCHANGED <<stats, perms, rebuilt, datasets, call, result, builds, step>>

NextH == HaversineDistance

SpecH == InitH /\ [][NextH]_vars

---------------------------------------------------------------------------
(* classify_region and is_refugia, on coordinates in whole degrees *)

RegionMaxOffset == 1   \* the coordinates lie this close to a boundary of a region

\* the Wallacea test with the meridian of 125 degrees counted to Sahul
classify_region_from_125(lat, lng) ==
    IF lng < 0 - 30 THEN "americas"
    ELSE IF 37 < lat /\ lat < 45 /\ 37 < lng /\ lng < 50 THEN "caucasus"
    ELSE IF lng > 110 /\ lat < 3
         THEN IF 0 - 11 < lat /\ lat < 3
              THEN IF lng >= 125 THEN "sahul" ELSE "non_refugia"
              ELSE "sahul"
    ELSE "non_refugia"

classify_region(lat, lng) ==
    IF lng < 0 - 30 THEN "americas"
    ELSE IF 37 < lat /\ lat < 45 /\ 37 < lng /\ lng < 50 THEN "caucasus"
    ELSE IF lng > 110 /\ lat < 3
         THEN IF 0 - 11 < lat /\ lat < 3
              THEN IF lng > 125 THEN "sahul" ELSE "non_refugia"
              ELSE "sahul"
    ELSE "non_refugia"

is_refugia(lat, lng) == classify_region(lat, lng) # "non_refugia"

Near(bounds) == {b + o : b \in bounds, o \in (0 - RegionMaxOffset)..RegionMaxOffset}

\* latitudes and longitudes at, and on both sides of, the boundaries the
\* function tests, and at the ends of their ranges
RegionLatitudes == Near({0 - 11, 3, 37, 45}) \cup {0 - 90, 0, 90}

RegionLongitudes == Near({0 - 30, 37, 50, 110, 125}) \cup {0 - 180, 0, 180}

InitG ==
    /\ pc = "located"
    /\ geo \in {[NoGeo EXCEPT !.args = <<lat, lng>>] :
                   lat \in RegionLatitudes, lng \in RegionLongitudes}
    /\ languages = << >>
    /\ k = DefaultK
    /\ inverse_distance = TRUE
    /\ weights = << >>
    /\ values = << >>
    /\ morans = Trivial
    /\ error = "none"
    /\ NoPermutationTest
    /\ rebuilt = << >>
    /\ datasets = [id \in {} |-> << >>]
    /\ call = NoCall
    /\ result = NoResult
    /\ builds = [id \in {} |-> 0]
    /\ step = 0

ClassifyRegion ==
    /\ pc = "located"
    /\ geo' = [geo EXCEPT !.returned = classify_region(geo.args[1], geo.args[2])]
    /\ pc' = "classified"
    /\ UNCHANGED <<stats, error, perms, rebuilt, datasets, call, result, builds, step>>

IsRefugia ==
    /\ pc = "classified"
    /\ geo' = [geo EXCEPT !.is_refugia = is_refugia(geo.args[1], geo.args[2])]
    /\ pc' = "answered"
    /\ UNCHANGED <<stats, error, perms, rebuilt, datasets, call, result, builds, step>>

NextG == ClassifyRegion \/ IsRefugia

SpecG == InitG /\ [][NextG]_vars

---------------------------------------------------------------------------
(* Properties of the weights builder (SpecW) *)

N == Len(languages)

Built == pc # "start"

Positive(i, j) == weights[i][j][1] > 0

RowSum(i) == RSum(weights[i])

DistanceBetween(i, j) ==
    haversine_distance(languages[i].latitude, languages[i].longitude,
                       languages[j].latitude, languages[j].longitude)

\* C1: the matrix returned by compute_spatial_weights is square N x N, its
\* diagonal is exactly 0 and no entry is negative, for every k and both modes
C1_SquareZeroDiagonalNonNegative ==
    Built =>
        /\ Len(weights) = N
        /\ \A i \in 1..N :
              /\ Len(weights[i]) = N
              /\ weights[i][i] = Zero
              /\ \A j \in 1..N : weights[i][j][1] >= 0 /\ weights[i][j][2] > 0

C1_Witness ==
    /\ pc = "weighted"
    /\ N >= 3
    /\ k < 0
    /\ \E i, j \in 1..N : Positive(i, j)

\* C2: with N >= 2 and k >= 1 every row has a neighbor and sums to 1; with
\* k >= 1 a row is all-zero only when the point list has one point
C2_RowsSumToOne ==
    (Built /\ k >= 1) =>
        /\ N >= 2 => \A i \in 1..N : (\E j \in 1..N : Positive(i, j)) /\ RowSum(i) = One
        /\ \A i \in 1..N : (\A j \in 1..N : weights[i][j] = Zero) => N = 1

C2_Witness ==
    /\ pc = "weighted"
    /\ N >= 3
    /\ k >= 1
    /\ k < N - 1
    /\ \E i, j, l \in 1..N :
          Positive(i, j) /\ Positive(i, l) /\ weights[i][j] # weights[i][l]

\* C3 as stated: with k >= N - 1 every row sums to 1, whatever N is
C3_DenseRowsSumToOne_AnyN ==
    (Built /\ k >= N - 1) => \A i \in 1..N : RowSum(i) = One

\* C3 as amended: with N >= 2 and k >= N - 1 every row sums to 1
C3_DenseRowsSumToOne ==
    (Built /\ N >= 2 /\ k >= N - 1) => \A i \in 1..N : RowSum(i) = One

C3_Witness ==
    /\ pc = "weighted"
    /\ N >= 3
    /\ k >= N - 1
    /\ inverse_distance
    /\ \E i, j, l \in 1..N :
          Positive(i, j) /\ Positive(i, l) /\ weights[i][j] # weights[i][l]

\* the number of candidates that come before j in the order of row i:
\* ascending distance from i, equal distances by ascending index
Rank(i, j) ==
    Cardinality({l \in 1..N \ {i} :
                    \/ DistanceBetween(i, l) < DistanceBetween(i, j)
                    \/ DistanceBetween(i, l) = DistanceBetween(i, j) /\ l < j})

Min(a, b) == IF a < b THEN a ELSE b

\* C4: for k in the contract (and for k = 0) the columns of row i with a
\* positive weight are the first min(k, N - 1) of the other points by ascending
\* distance, equal distances by ascending index; with k >= N - 1 they are all
\* the other points
C4_NearestNeighborsStableOrder ==
    (Built /\ k >= 0) =>
        \A i, j \in 1..N :
            /\ Positive(i, j) <=> (j # i /\ Rank(i, j) < Min(k, N - 1))
            /\ (k >= N - 1 /\ j # i) => Positive(i, j)

C4_Witness ==
    /\ pc = "weighted"
    /\ k >= 1
    /\ \E i, j, l \in 1..N :
          /\ j # i /\ l # i /\ j < l
          /\ DistanceBetween(i, j) = DistanceBetween(i, l)
          /\ Positive(i, j)
          /\ ~Positive(i, l)

\* C5: a neighbor count k < 1 and a permutation count below 1 are refused
\* with a configuration error
C5_InvalidParameterRejected ==
    /\ (pc = "weighted" /\ k < 1) => error = "ConfigurationError"
    /\ (pc = "tested" /\ n_permutations < 1) => error = "ConfigurationError"

C5_Witness ==
    /\ pc = "weighted"
    /\ k < 1
    /\ N >= 2
    /\ error = "none"

---------------------------------------------------------------------------
(* Properties of the autocorrelation calculator (SpecM) *)

Analysed == pc = "analysed"

ConstantValues == \A i, j \in 1..Len(values) : values[i] = values[j]

NoOffDiagonalWeight ==
    \A i, j \in 1..Len(weights) : i # j => weights[i][j] = Zero

Degenerate == Len(values) < 3 \/ ConstantValues \/ NoOffDiagonalWeight

RECURSIVE Total(_, _)
Total(s, m) == IF m = 0 THEN 0 ELSE s[m] + Total(s, m - 1)

\* the formula of the statistic, written over the scaled deviations
\* D_i = N * x_i - sum(x) = N * d_i (the factor N * N cancels in the quotient)
FormulaI(x, w) ==
    LET n == Len(x)
        D == CHOOSE f \in {[i \in 1..n |-> n * x[i] - t] : t \in {Total(x, n)}} : TRUE
        pair(q) == <<((q - 1) \div n) + 1, ((q - 1) % n) + 1>>
        cross == RSum([q \in 1..(n * n) |->
                        IF pair(q)[1] = pair(q)[2] THEN Zero
                        ELSE RMul(w[pair(q)[1]][pair(q)[2]],
                                  FromInt(D[pair(q)[1]] * D[pair(q)[2]]))])
        W_total == RSum([q \in 1..(n * n) |->
                          IF pair(q)[1] = pair(q)[2] THEN Zero
                          ELSE w[pair(q)[1]][pair(q)[2]]])
        squares == Total([i \in 1..n |-> D[i] * D[i]], n)
    IN  CHOOSE r \in {RDiv(RMul(FromInt(n), c), RMul(wt, FromInt(squares))) :
                        c \in {cross}, wt \in {W_total}} : TRUE

\* var(I) = (A - B) / C - E[I]^2 of the analysed input (C # 0)
AnalyticVariance ==
    CHOOSE v \in {VarI(VarA(n, s1, s2, W), VarB(n, Kurtosis(d, SumSqDev(d)), s1, s2, W),
                       VarC(n, W), ExpectedI(n)) :
                    n \in {Len(values)},
                    W \in {WeightSum(Len(values), weights)},
                    s1 \in {S1(Len(values), weights)},
                    s2 \in {S2(Len(values), weights)},
                    d \in {Deviations(values)}} : TRUE

DenominatorCIsZero ==
    (Len(values) - 1) * (Len(values) - 2) * (Len(values) - 3) = 0

\* C6: calculate_morans_i returns exactly (I = 0, z = 0, p = 1), raising
\* nothing, when N < 3, when the value vector is constant, and when the
\* off-diagonal weights sum to 0
C6_DegenerateInputsGiveTrivialResult ==
    (Analysed /\ Degenerate) => (morans = <<Zero, ZeroZ, "1.0">> /\ error = "none")

C6_Witness ==
    /\ Analysed
    /\ Len(values) = 2
    /\ ~ConstantValues
    /\ ~NoOffDiagonalWeight
    /\ morans = <<Zero, ZeroZ, "1.0">>

\* C7: for N >= 3, a value vector that is not constant and a non-zero total
\* weight, the statistic returned is
\* (N / W_total) * (sum over i, j # i of w_ij d_i d_j) / (sum of d_i^2)
C7_StatisticIsMoranFormula ==
    (Analysed /\ ~Degenerate) => morans[1] = FormulaI(values, weights)

C7_Witness ==
    /\ Analysed
    /\ ~Degenerate
    /\ Len(values) >= 4
    /\ morans[1][1] < 0
    /\ morans[1][2] > 1

\* C8: past the degenerate-input checks, when C = (N-1)(N-2)(N-3) W^2 is 0 or
\* var(I) <= 0, the result is (I, z = 0, p = 1) with I the computed statistic,
\* and nothing is raised
C8_DegenerateVarianceFallback ==
    (Analysed /\ ~Degenerate) =>
        ((DenominatorCIsZero \/ RLe(AnalyticVariance, Zero)) =>
            /\ morans = <<FormulaI(values, weights), ZeroZ, "1.0">>
            /\ error = "none")

C8_Witness ==
    /\ Analysed
    /\ ~Degenerate
    /\ ~DenominatorCIsZero
    /\ RLe(AnalyticVariance, Zero)
    /\ ~RIsZero(morans[1])
    /\ morans[2] = ZeroZ
    /\ morans[3] = "1.0"

---------------------------------------------------------------------------
(* Properties of the permutation tester (SpecP) *)

Tested == pc = "tested"

\* the trials of the finished call whose statistic is at least as extreme as
\* the observed one, counted over the statistics the trials produced
ExtremeTrials(observed_I) ==
    {t \in 1..Len(perm.perm_Is) :
        \E a \in {RAbs(perm.perm_Is[t])} : \E b \in {RAbs(observed_I)} :
            a[1] * b[2] >= b[1] * a[2]}

\* C9: the p-value returned is (count + 1) / (M + 1), count the number of the
\* M trials with |I_perm| >= |I_observed| and I_observed the statistic of the
\* unshuffled vector; for M >= 1 it lies in [1 / (M + 1), 1] and is not 0
C9_EmpiricalPValue ==
    (Tested /\ error = "none") =>
        \E observed \in {calculate_morans_i(values, weights)} :
        \E count \in {Cardinality(ExtremeTrials(observed[1]))} :
            /\ perm.observed_I = observed[1]
            /\ n_permutations >= 0 => Len(perm.perm_Is) = n_permutations
            /\ p_value[1] * (n_permutations + 1) = (count + 1) * p_value[2]
            /\ n_permutations >= 1 =>
                  /\ p_value[1] > 0
                  /\ p_value[1] * (n_permutations + 1) >= p_value[2]
                  /\ p_value[1] <= p_value[2]

C9_Witness ==
    /\ Tested
    /\ error = "none"
    /\ n_permutations >= 2
    /\ perm.more_extreme > 0
    /\ perm.more_extreme < n_permutations
    /\ ~RIsZero(perm.observed_I)

\* C10: two calls of permutation_test on the same values, weights and M, each
\* made right after random.seed with the same seed, return the same p-value
\* and the same observed statistic
C10_SameSeedSameResult ==
    \A a, b \in 1..Len(runs) :
        (runs[a].seed.fresh /\ runs[b].seed.fresh /\ runs[a].seed.seed = runs[b].seed.seed)
            => /\ runs[a].p_value = runs[b].p_value
               /\ runs[a].observed_I = runs[b].observed_I
               /\ runs[a].error = runs[b].error

C10_Witness ==
    /\ Len(runs) = 2
    /\ runs[1].seed.fresh
    /\ runs[2].seed.fresh
    /\ runs[1].seed.seed = runs[2].seed.seed
    /\ n_permutations >= 2
    /\ Len(values) >= 3
    /\ ~RIsZero(runs[1].observed_I)
    /\ runs[1].p_value # One
    /\ runs[1].p_value = runs[2].p_value

\* C11: permutation_test draws from a generator of its own, seeded per run, so
\* that the result of a call does not depend on the draws made before it: a
\* second call under the same seed returns what the first returned, whether or
\* not random.seed was called again in between
C11_ResultIndependentOfEarlierDraws ==
    (Len(runs) = 2 /\ runs[1].seed.fresh /\ runs[2].seed.seed = runs[1].seed.seed)
        => runs[2].p_value = runs[1].p_value

C11_Witness ==
    /\ Tested
    /\ Len(runs) = 1
    /\ runs[1].seed.fresh
    /\ n_permutations >= 1
    /\ Len(values) >= 2
    /\ rng # SeedState(runs[1].seed.seed, rng)

\* C20: for fewer than 2 points compute_spatial_weights returns an all-zero
\* matrix (empty for N = 0, one entry 0 for N = 1) and raises nothing, for
\* every k and both modes
C20_FewerThanTwoPointsZeroMatrix ==
    (Built /\ N < 2) =>
        /\ weights = [i \in 1..N |-> [j \in 1..N |-> Zero]]
        /\ error = "none"

C20_Witness ==
    /\ pc = "weighted"
    /\ N = 1
    /\ k >= 1
    /\ ~inverse_distance
    /\ weights = << <<Zero>> >>

\* C15: calculate_morans_i and permutation_test leave the weights matrix, the
\* caller's value vector and the point list as they were (the shuffle works
\* on a copy), and compute_spatial_weights leaves the point list as it was
C15_InputsUnchanged ==
    [][/\ languages' = languages
       /\ values' = values
       /\ pc # "start" => weights' = weights]_vars

C15_Witness ==
    /\ Tested
    /\ Len(values) >= 3
    /\ perm.trial >= 2
    /\ perm.shuffled_values # values
    /\ perm.shuffled_values # << >>

Max(a, b) == IF a > b THEN a ELSE b

\* C16: a p-value is returned only after all M trials were run and counted
\* (M statistics computed), unless the call raises and returns none; and a
\* call that has started always comes to its end
C16_AllTrialsThenPValue ==
    /\ [](Tested /\ error = "none" =>
             /\ perm.trial = Max(n_permutations, 0)
             /\ Len(perm.perm_Is) = perm.trial
             /\ perm.more_extreme <= perm.trial)
    /\ [](Tested /\ error # "none" => (p_value = Zero /\ runs[Len(runs)].error # "none"))
    /\ (pc = "permuting" ~> Tested)

C16_Witness ==
    /\ Tested
    /\ error = "none"
    /\ n_permutations = PermMaxM
    /\ perm.trial = PermMaxM
    /\ Len(values) >= 3
    /\ ~RIsZero(perm.observed_I)

---------------------------------------------------------------------------
(* Properties of analyze_feature (SpecA) *)

Reported == pc = "reported"

\* the languages of the analysed dataset that carry the trait
Targets == {i \in 1..Len(languages) : languages[i].value \in call.target_values}

\* C12: with fewer than 3 target languages analyze_feature does not call
\* permutation_test and reports the permutation p-value as None, whatever
\* run_permutation is
C12_NoPermutationBelowThreeTargets ==
    (call.feature_id # "none" /\ Cardinality(Targets) < 3) =>
        /\ pc \notin {"permuting", "tested"}
        /\ runs = << >>
        /\ Reported => result.permutation_p = "None"

C12_Witness ==
    /\ Reported
    /\ call.run_permutation
    /\ Len(languages) >= 5
    /\ Cardinality(Targets) = 2
    /\ runs = << >>
    /\ result.permutation_p = "None"

\* C13: an analysis of insufficient data (fewer than 3 points, none included,
\* or a constant indicator vector) raises nothing and returns a result with
\* morans_i = 0, z_score = 0 and p_value = 1
C13_InsufficientDataStillReported ==
    (pc \in {"reported", "raised"} /\ (Len(languages) < 3 \/ ConstantValues)) =>
        /\ Reported
        /\ error = "none"
        /\ result.morans_i = Zero
        /\ result.z_score = ZeroZ
        /\ result.p_value = "1.0"

C13_Witness ==
    /\ pc = "raised"
    /\ datasets["1A"] = << >>
    /\ error = "ZeroDivisionError"
    /\ result = NoResult

\* the point list with code, name, value and description blanked
CoordinatesOnly(langs) ==
    [i \in 1..Len(langs) |-> LanguageRecord(0, langs[i].latitude, langs[i].longitude, 0)]

\* C18: the matrix and (I, z, p) are those of the bare coordinates, the value
\* vector and k: code, name, description and stored category of the points do
\* not enter them
C18_MetadataDoesNotEnter ==
    (Reported /\ Len(languages) >= 5) =>
        \E w \in {compute_spatial_weights(CoordinatesOnly(languages), k, TRUE)} :
        \E m \in {calculate_morans_i(values, w)} :
            /\ weights = w
            /\ morans = m
            /\ result.morans_i = m[1]
            /\ result.z_score = m[2]
            /\ result.p_value = m[3]

C18_Witness ==
    /\ Reported
    /\ Len(languages) >= 5
    /\ k < Len(languages) - 1
    /\ languages[1].code > languages[2].code
    /\ languages[1].value # languages[3].value
    /\ ~RIsZero(result.morans_i)
    /\ \E i, j, l \in 1..N :
          /\ j # i /\ l # i /\ j < l
          /\ DistanceBetween(i, j) = DistanceBetween(i, l)
          /\ Positive(i, j)
          /\ ~Positive(i, l)

\* C28: a dataset of fewer than 5 languages is reported with (0, 0, 1) and
\* permutation p None, and no weights matrix is built for it; a dataset of 5
\* or more is reported with the triple calculate_morans_i returns for the
\* indicator vector of target_values and the k-NN weights of the full list
C28_ReportedTriple ==
    (call.feature_id # "none" /\ pc \in {"reported", "raised"}) =>
        /\ Reported
        /\ values = [i \in 1..Len(languages) |-> IF i \in Targets THEN 1 ELSE 0]
        /\ IF Len(languages) < 5
           THEN /\ <<result.morans_i, result.z_score, result.p_value>> = <<Zero, ZeroZ, "1.0">>
                /\ result.permutation_p = "None"
                /\ builds[call.feature_id] = 0
                /\ weights = << >>
           ELSE \E w \in {compute_spatial_weights(languages, k, TRUE)} :
                   /\ weights = w
                   /\ builds[call.feature_id] = 1
                   /\ <<result.morans_i, result.z_score, result.p_value>>
                         = calculate_morans_i(values, w)

C28_Witness ==
    /\ pc = "raised"
    /\ call.feature_id = "1A"
    /\ Len(languages) = 0
    /\ builds["1A"] = 0
    /\ weights = << >>
    /\ morans = Trivial
    /\ result = NoResult

---------------------------------------------------------------------------
(* Properties of main (SpecR) *)

\* C17: within a run the weights matrix of a point set is built once:
\* compute_spatial_weights is not executed again for a dataset whose matrix
\* was built before
C17_WeightsBuiltOncePerPointSet ==
    \A id \in DOMAIN builds : builds[id] <= 1

C17_Witness ==
    /\ step = 5
    /\ pc = "ready"
    /\ "18A" \in DOMAIN builds
    /\ builds["18A"] = 3
    /\ error = "none"

---------------------------------------------------------------------------
(* Properties of the construction of points (SpecX) *)

\* 90 and 180 degrees, in arcs of 0.1 km
ValidLatitude(lat) == Abs(lat) <= HalfCircumference10 \div 2

ValidLongitude(lng) == Abs(lng) <= HalfCircumference10

\* C14: a point with a latitude outside [-90, 90] or a longitude outside
\* [-180, 180] is refused when it is constructed, so every point of a parsed
\* list, and every point handed to compute_spatial_weights, is in range
C14_CoordinatesValidated ==
    \A i \in 1..Len(languages) :
        ValidLatitude(languages[i].latitude) /\ ValidLongitude(languages[i].longitude)

C14_Witness ==
    /\ pc = "weighted"
    /\ error = "none"
    /\ Len(languages) = 3
    /\ languages[1].longitude = 0
    /\ languages[2].longitude = 2
    /\ ~ValidLongitude(languages[3].longitude)
    /\ weights[3][2][1] * weights[3][1][2] > weights[3][1][1] * weights[3][2][2]

---------------------------------------------------------------------------
(* Properties of the worked scenarios (SpecS) *)

ClusteredLabels == <<1, 1, 1, 0, 0>>

InterleavedLabels == <<1, 0, 1, 0, 1>>

\* the analysed call is the one of the scenarios: five points, k = 2,
\* inverse-distance weights
ScenarioAnalysed ==
    Analysed /\ languages = ScenarioPoints /\ k = 2 /\ inverse_distance

\* C21: scenario A, the labels 1, 1, 1, 0, 0 on the five points with k = 2 and
\* inverse-distance weights, gives a statistic above 0.3
C21_ClusteredAboveThreeTenths ==
    (ScenarioAnalysed /\ values = ClusteredLabels) => RLt(Rat(3, 10), morans[1])

C21_Witness ==
    /\ ScenarioAnalysed
    /\ values = ClusteredLabels
    /\ weights[1] = <<Zero, Rat(2, 3), Rat(1, 3), Zero, Zero>>
    /\ morans[1] = Rat(5, 12)

\* C22: scenario B, the labels 1, 0, 1, 0, 1 on the same points and matrix,
\* gives a statistic that is at most E[I] = -1/4 and below the statistic of
\* scenario A on that matrix
C22_InterleavedAtMostExpectation ==
    (ScenarioAnalysed /\ values = InterleavedLabels) =>
        /\ ExpectedI(5) = Rat(0 - 1, 4)
        /\ RLe(morans[1], Rat(0 - 1, 4))
        /\ \E clustered \in {calculate_morans_i(ClusteredLabels, weights)} :
              RLt(morans[1], clustered[1])

C22_Witness ==
    /\ ScenarioAnalysed
    /\ values = InterleavedLabels
    /\ morans[1] = Rat(0 - 7, 9)
    /\ morans[3] = "between 0 and 1"

---------------------------------------------------------------------------
(* Properties of the analytic p-value (SpecZ) *)

\* C23: the analytic p-value lies in (0, 1]: it is 1 on the degenerate and
\* fallback paths and above 0 on the full path, however large |z| is
C23_PValueAboveZero ==
    Analysed =>
        /\ morans[3] # "0.0"
        /\ morans[2] = ZeroZ => morans[3] = "1.0"

C23_Witness ==
    /\ Analysed
    /\ Len(values) = 2 * ClusterMaxHalf
    /\ morans[1] = One
    /\ ErfSaturates(morans[2].sq)
    /\ morans[3] = "0.0"

---------------------------------------------------------------------------
(* Properties of haversine_distance (SpecH) *)

\* C24: haversine_distance keeps the argument of its square roots within
\* [0, 1]: for antipodal points it raises no domain error and returns a
\* distance >= 0 that is pi * R (to the 0.1 km of the model)
C24_AntipodesHalfCircumference ==
    (pc = "measured" /\ Antipodal(geo.args[1], geo.args[2], geo.args[3], geo.args[4])) =>
        /\ error = "none"
        /\ geo.returned = HalfCircumference10

C24_Witness ==
    /\ pc = "measured"
    /\ geo.args = <<8, 0, 0 - 8, 180>>
    /\ error = "ValueError"
    /\ geo.returned = "none"

---------------------------------------------------------------------------
(* Properties of classify_region and is_refugia (SpecG) *)

\* C25: classify_region returns one of the four region names: americas iff
\* lng < -30; caucasus iff 37 < lat < 45 and 37 < lng < 50; sahul iff
\* lng > 110 and lat < 3 and, for -11 < lat < 3, also lng > 125; non_refugia
\* otherwise; and is_refugia is true exactly when the region is not
\* non_refugia
C25_RegionOfCoordinates ==
    pc \in {"classified", "answered"} =>
        \E lat \in {geo.args[1]} : \E lng \in {geo.args[2]} :
        \E americas \in {lng < 0 - 30} :
        \E caucasus \in {37 < lat /\ lat < 45 /\ 37 < lng /\ lng < 50} :
        \E sahul \in {lng > 110 /\ lat < 3 /\ ((0 - 11 < lat /\ lat < 3) => lng > 125)} :
            /\ geo.returned \in {"americas", "sahul", "caucasus", "non_refugia"}
            /\ geo.returned = "americas" <=> americas
            /\ geo.returned = "caucasus" <=> caucasus
            /\ geo.returned = "sahul" <=> sahul
            /\ geo.returned = "non_refugia" <=> ~(americas \/ caucasus \/ sahul)
            /\ pc = "answered" => (geo.is_refugia <=> geo.returned # "non_refugia")

C25_Witness ==
    /\ pc = "answered"
    /\ geo.args = <<2, 125>>
    /\ geo.returned = "non_refugia"
    /\ geo.is_refugia = FALSE

---------------------------------------------------------------------------
(* Properties of the trials of the permutation tester (SpecT) *)

\* C26: when the observed statistic is 0 (as it is for N < 3, for a constant
\* value vector and for a matrix without weight), every trial counts as at
\* least as extreme and the p-value returned is 1, for every M >= 0
C26_ZeroObservedGivesOne ==
    (Tested /\ error = "none") =>
        /\ Degenerate => RIsZero(perm.observed_I)
        /\ RIsZero(perm.observed_I) =>
              /\ perm.more_extreme = n_permutations
              /\ p_value = One

C26_Witness ==
    /\ Tested
    /\ n_permutations = TrialMaxM
    /\ Len(values) >= 3
    /\ ~ConstantValues
    /\ NoOffDiagonalWeight
    /\ RIsZero(perm.observed_I)
    /\ perm.more_extreme = TrialMaxM
    /\ p_value = One

\* how often the label v occurs in the vector x
Occurrences(x, v) == Cardinality({i \in 1..Len(x) : x[i] = v})

\* C29: in every trial the shuffled vector is a rearrangement of the value
\* vector: the same length and the same number of each label, hence the same
\* mean and the same sum of squared deviations
C29_ShuffleRearranges ==
    (pc \in {"permuting", "tested"} /\ perm.trial >= 1) =>
        \E shuffled \in {perm.shuffled_values} :
            /\ Len(shuffled) = Len(values)
            /\ \A v \in Labels : Occurrences(shuffled, v) = Occurrences(values, v)
            /\ Len(values) >= 1 =>
                  /\ Mean(shuffled) = Mean(values)
                  /\ SumSqDev(Deviations(shuffled)) = SumSqDev(Deviations(values))

C29_Witness ==
    /\ pc = "permuting"
    /\ perm.trial >= 1
    /\ Len(values) >= 4
    /\ ~ConstantValues
    /\ perm.shuffled_values # values
    /\ perm.perm_Is[perm.trial] # perm.observed_I

---------------------------------------------------------------------------
(* Properties of the calculator on the caller's matrices (SpecC) *)

\* C27: for N = 3, a value vector that is not constant and a matrix with
\* non-zero total weight, the result is (I, 0, 1) with I the statistic of the
\* formula: the factor N - 3 makes C = 0 and no significance is reported
C27_ThreePointsNoSignificance ==
    (pc \in {"analysed", "complemented"} /\ Len(values) = 3 /\ ~Degenerate) =>
        morans = <<FormulaI(values, weights), ZeroZ, "1.0">>

C27_Witness ==
    /\ Analysed
    /\ Len(values) = 3
    /\ ~Degenerate
    /\ weights[1][1] = One
    /\ morans[1][1] < 0
    /\ morans[2] = ZeroZ
    /\ morans[3] = "1.0"

=============================================================================
